---- MODULE Spec2Model ----
(***************************************************************************)
(* Model of usage_plotter: the access-log parser (parse_logs,              *)
(* filter_log_lines, parse_log_line, parse_log_timestamp, parse_log_path)  *)
(* and the report generator (gen_report, resample_to_quarter,              *)
(* convert_to_fiscal_month) of src/usage_plotter/parse.py, with bytes_to   *)
(* of src/usage_plotter/usage_plotter.py.                                  *)
(*                                                                         *)
(* Text is modelled by TLA+ strings, character by character: the Python    *)
(* string operations the code uses (in, find, index, slicing, replace,     *)
(* split, join, comparison) are operators over strings.  Optional values   *)
(* are <<>> (None) or <<v>>.  A float that the code obtains by dividing an *)
(* integer by a power of 1024 is the exact rational [num, den].            *)
(***************************************************************************)
EXTENDS Integers, Sequences, FiniteSets, TLC

VARIABLES
    instream,       \* the admitted-or-not raw lines still to be read, in reading order
    log_lines,      \* parse_logs: the list of parsed lines
    df,             \* parse_logs's result: None, or <<the table of parsed lines>>
    pc,             \* "parsing", "parsed" (parse_logs returned df), "done", "error"
    err,            \* the exception that ended the run, or "none"
    facet,          \* gen_report's facet argument: None or <<name>>
    df_mon_report,  \* gen_report: the monthly report (a sequence of rows)
    df_qt_report    \* gen_report: the returned report (a sequence of rows)

vars == <<instream, log_lines, df, pc, err, facet, df_mon_report, df_qt_report>>

(***************************************************************************)
(* Bounds of the model.                                                    *)
(***************************************************************************)
MaxLines == 3

(***************************************************************************)
(* Python values.                                                          *)
(***************************************************************************)
None == <<>>

Some(v) == <<v>>

Digits == "0123456789"

UpperCase == "ABCDEFGHIJKLMNOPQRSTUVWXYZ"

LowerCase == "abcdefghijklmnopqrstuvwxyz"

\* The 1-based position of one-character c in table, or 0.
PosIn(table, c) ==
    IF \E i \in 1..Len(table) : SubSeq(table, i, i) = c
    THEN CHOOSE i \in 1..Len(table) : SubSeq(table, i, i) = c
    ELSE 0

\* ord(c) of a one-character string, for the ASCII characters log lines are
\* made of here.
Ord(c) ==
    IF PosIn(Digits, c) > 0 THEN 47 + PosIn(Digits, c)
    ELSE IF PosIn(UpperCase, c) > 0 THEN 64 + PosIn(UpperCase, c)
    ELSE IF PosIn(LowerCase, c) > 0 THEN 96 + PosIn(LowerCase, c)
    ELSE CASE c = "\t" -> 9  [] c = "\n" -> 10 [] c = " " -> 32
           [] c = "\"" -> 34 [] c = "%" -> 37  [] c = "(" -> 40
           [] c = ")" -> 41  [] c = "-" -> 45  [] c = "." -> 46
           [] c = "/" -> 47  [] c = ":" -> 58  [] c = "[" -> 91
           [] c = "]" -> 93  [] c = "_" -> 95

CharAt(s, i) == SubSeq(s, i, i)

\* s1 < s2 for Python strings (lexicographic on code points).
RECURSIVE StrLess(_, _)
StrLess(s1, s2) ==
    IF s2 = "" THEN FALSE
    ELSE IF s1 = "" THEN TRUE
    ELSE IF Head(s1) = Head(s2) THEN StrLess(Tail(s1), Tail(s2))
    ELSE Ord(Head(s1)) < Ord(Head(s2))

SetMin(S) == CHOOSE x \in S : \A y \in S : x <= y

\* The 1-based positions at which pat occurs in s
Occurrences(s, pat) ==
    {i \in 1..(Len(s) - Len(pat) + 1) : SubSeq(s, i, i + Len(pat) - 1) = pat}

\* pat in s
Contains(s, pat) == Occurrences(s, pat) # {}

\* s.find(pat): the 0-based index of the first occurrence, or -1.
Find(s, pat) ==
    LET occ == Occurrences(s, pat)
    IN  IF occ = {} THEN -1 ELSE SetMin(occ) - 1

\* A slice bound as Python clamps it: negative bounds count from the end.
SliceBound(n, k) ==
    IF k < 0 THEN (IF n + k < 0 THEN 0 ELSE n + k)
    ELSE IF k > n THEN n ELSE k

\* s[a:b] with 0-based bounds
PySlice(s, a, b) ==
    SubSeq(s, SliceBound(Len(s), a) + 1, SliceBound(Len(s), b))

\* s[a:], where a is None or <<k>>: s[None:] is the whole string.
PySliceFrom(s, a) ==
    IF a = None THEN s ELSE PySlice(s, a[1], Len(s))

\* s.replace(old, new), old non-empty: non-overlapping, left to right.
RECURSIVE Replace(_, _, _)
Replace(s, old, new) ==
    LET k == Find(s, old)
    IN  IF k = -1 THEN s
        ELSE SubSeq(s, 1, k) \o new
             \o Replace(SubSeq(s, k + Len(old) + 1, Len(s)), old, new)

\* s.split(sep) for a one-character sep: empty pieces are kept.
RECURSIVE SplitOn(_, _)
SplitOn(s, sep) ==
    LET k == Find(s, sep)
    IN  IF k = -1 THEN <<s>>
        ELSE <<SubSeq(s, 1, k)>> \o SplitOn(SubSeq(s, k + 2, Len(s)), sep)

IsSpace(c) == c \in {" ", "\n", "\t"}

\* s.split(): the pieces between runs of whitespace, none of them empty.
RECURSIVE Split(_)
Split(s) ==
    LET nonspace == {i \in 1..Len(s) : ~IsSpace(CharAt(s, i))}
    IN  IF nonspace = {} THEN <<>>
        ELSE LET start == SetMin(nonspace)
                 spaces == {i \in start..Len(s) : IsSpace(CharAt(s, i))}
                 end == IF spaces = {} THEN Len(s) + 1 ELSE SetMin(spaces)
             IN  <<SubSeq(s, start, end - 1)>> \o Split(SubSeq(s, end, Len(s)))

\* sep.join(parts)
RECURSIVE Join(_, _)
Join(sep, parts) ==
    IF parts = <<>> THEN ""
    ELSE IF Len(parts) = 1 THEN parts[1]
    ELSE parts[1] \o sep \o Join(sep, Tail(parts))

\* parts[:-1]
DropLast(parts) == SubSeq(parts, 1, Len(parts) - 1)

\* x in list
InList(x, list) == \E i \in 1..Len(list) : list[i] = x

IsDigit(c) == PosIn(Digits, c) > 0

AllDigits(s) == s # "" /\ \A i \in 1..Len(s) : IsDigit(CharAt(s, i))

\* The value of a non-empty string of decimal digits.
RECURSIVE DecimalValue(_, _)
DecimalValue(s, acc) ==
    IF s = "" THEN acc
    ELSE DecimalValue(Tail(s), 10 * acc + (PosIn(Digits, Head(s)) - 1))

\* str(n) for n >= 0
RECURSIVE IntToStr(_)
IntToStr(n) ==
    IF n < 10 THEN CharAt(Digits, n + 1)
    ELSE IntToStr(n \div 10) \o CharAt(Digits, (n % 10) + 1)

(***************************************************************************)
(* Numbers.  bytes / bsize ** k is the exact rational num / bsize ** exp.  *)
(***************************************************************************)
bsize == 1024

RECURSIVE Pow(_, _)
Pow(b, k) == IF k = 0 THEN 1 ELSE b * Pow(b, k - 1)

Rat(n, e) == [num |-> n, exp |-> e]

\* a + b, on the larger of the two exponents
RatAdd(a, b) ==
    IF a.exp >= b.exp
    THEN Rat(a.num + b.num * Pow(bsize, a.exp - b.exp), a.exp)
    ELSE Rat(a.num * Pow(bsize, b.exp - a.exp) + b.num, b.exp)

\* a / bsize
RatDivBsize(a) == Rat(a.num, a.exp + 1)

\* a = b as numbers
RatEq(a, b) ==
    IF a.exp >= b.exp
    THEN a.num = b.num * Pow(bsize, a.exp - b.exp)
    ELSE a.num * Pow(bsize, b.exp - a.exp) = b.num

\* float(s), for the tokens of this model: a string of decimal digits is its
\* value; any other string (one with a letter, ":" or "/" in it) is a
\* ValueError, given as None.
Float(s) == IF AllDigits(s) THEN Some(DecimalValue(s, 0)) ELSE None

\* bytes_to(bytes_str, to): None for float's ValueError.
map_sizes(to) == CASE to = "kb" -> 1 [] to = "mb" -> 2 [] to = "gb" -> 3 [] to = "t" -> 4

bytes_to(bytes_str, to) ==
    IF Float(bytes_str) = None THEN None
    ELSE Some(Rat(Float(bytes_str)[1], map_sizes(to)))

(***************************************************************************)
(* The facet vocabularies, in their declared order.                        *)
(***************************************************************************)
FacetNames ==
    <<"realm", "data_type", "time_frequency", "activity", "science_driver", "campaign">>

AVAILABLE_FACETS(name) ==
    CASE name = "realm" -> <<"ocean", "atmos", "land", "sea-ice">>
      [] name = "data_type" ->
            <<"time-series", "climo", "model-output", "mapping", "restart">>
      [] name = "time_frequency" ->
            <<"3hr", "3hr_snap", "5day_snap", "6hr", "6hr_ave", "6hr_snap",
              "day", "day_cosp", "fixed", "mon", "monClim">>
      [] name = "activity" -> <<"C4MIP", "CMIP", "DAMIP", "ScenarioMIP">>
      [] name = "science_driver" ->
            <<"Biogeochemical Cycle", "Cryosphere", "Water Cycle">>
      [] name = "campaign" ->
            <<"BGC-v1", "Cryosphere-v1", "DECK-v1", "HighResMIP-v1">>

(***************************************************************************)
(* parse_log_timestamp                                                     *)
(***************************************************************************)
MonthAbbr ==
    <<"Jan", "Feb", "Mar", "Apr", "May", "Jun",
      "Jul", "Aug", "Sep", "Oct", "Nov", "Dec">>

IsLeap(y) == (y % 4 = 0 /\ y % 100 # 0) \/ y % 400 = 0

DaysInMonth(y, m) ==
    IF m = 2 THEN (IF IsLeap(y) THEN 29 ELSE 28)
    ELSE IF m \in {4, 6, 9, 11} THEN 30 ELSE 31

\* datetime.strptime(timestamp, "%d/%b/%Y").date(): Some(date), or None for
\* the ValueError of a string that does not match the format or names no day
\* of the calendar.
Strptime(timestamp) ==
    LET parts == SplitOn(timestamp, "/")
    IN  IF /\ Len(parts) = 3
           /\ AllDigits(parts[1]) /\ Len(parts[1]) <= 2
           /\ InList(parts[2], MonthAbbr)
           /\ AllDigits(parts[3]) /\ Len(parts[3]) = 4
        THEN LET d == DecimalValue(parts[1], 0)
                 m == CHOOSE i \in 1..12 : MonthAbbr[i] = parts[2]
                 y == DecimalValue(parts[3], 0)
             IN  IF y >= 1 /\ d >= 1 /\ d <= DaysInMonth(y, m)
                 THEN Some([year |-> y, month |-> m, day |-> d])
                 ELSE None
        ELSE None

\* The date parse_log_timestamp stores, or None when strptime raises.
parse_log_timestamp(raw_timestamp) ==
    Strptime(PySlice(raw_timestamp, Find(raw_timestamp, "[") + 1,
                     Find(raw_timestamp, ":")))

(***************************************************************************)
(* parse_log_path                                                          *)
(***************************************************************************)
\* The loop over a vocabulary as it would be with a break at the first hit.
RECURSIVE MatchingFacetFirst(_, _, _)
MatchingFacetFirst(dataset_facets, options, matching_facet) ==
    IF options = <<>> THEN matching_facet
    ELSE IF InList(Head(options), dataset_facets) THEN Some(Head(options))
    ELSE MatchingFacetFirst(dataset_facets, Tail(options), matching_facet)

\* The inner loop over a vocabulary: every option that is one of the
\* dataset's facets overwrites the candidate.
RECURSIVE MatchingFacet(_, _, _)
MatchingFacet(dataset_facets, options, matching_facet) ==
    IF options = <<>> THEN matching_facet
    ELSE MatchingFacet(dataset_facets, Tail(options),
                       IF InList(Head(options), dataset_facets)
                       THEN Some(Head(options))
                       ELSE matching_facet)

\* path.index("user_pub_work") + len("user_pub_work") + 1, or None when
\* index raises ValueError.
MarkerIdx(path) ==
    IF Contains(path, "user_pub_work")
    THEN Some(Find(path, "user_pub_work") + Len("user_pub_work") + 1)
    ELSE None

DatasetId(path) ==
    LET idx == MarkerIdx(path)
    IN  Join(".", DropLast(SplitOn(PySliceFrom(path, idx), "/")))

FileId(path) ==
    LET parts == SplitOn(path, "/") IN parts[Len(parts)]

\* The fields parse_log_path assigns.
parse_log_path(path) ==
    LET dataset_id == DatasetId(path)
        dataset_facets == SplitOn(dataset_id, ".")
    IN  [dataset_id |-> dataset_id,
         file_id |-> FileId(path),
         realm |-> MatchingFacet(dataset_facets, AVAILABLE_FACETS("realm"), None),
         data_type |->
            MatchingFacet(dataset_facets, AVAILABLE_FACETS("data_type"), None),
         time_frequency |->
            MatchingFacet(dataset_facets, AVAILABLE_FACETS("time_frequency"), None),
         activity |->
            MatchingFacet(dataset_facets, AVAILABLE_FACETS("activity"), None),
         science_driver |->
            MatchingFacet(dataset_facets, AVAILABLE_FACETS("science_driver"), None),
         campaign |->
            MatchingFacet(dataset_facets, AVAILABLE_FACETS("campaign"), None)]

(***************************************************************************)
(* parse_log_line                                                          *)
(***************************************************************************)
\* attrs[i] with Python's 0-based index
Attr(attrs, i) == attrs[i + 1]

\* The "mb" field: 0 when "-" is in the byte token, else bytes_to's value
\* (None for its ValueError).
MbOf(token) ==
    IF ~Contains(token, "-") THEN bytes_to(token, "mb") ELSE Some(Rat(0, 0))

\* parse_log_line(line): [ok |-> TRUE, val |-> the LogLine], or
\* [ok |-> FALSE, err |-> the exception raised].
parse_log_line(line) ==
    LET attrs == Split(line)
        mb == MbOf(Attr(attrs, 9))
        parsed_date == parse_log_timestamp(Attr(attrs, 3))
    IN  IF Len(attrs) < 12 THEN [ok |-> FALSE, err |-> "IndexError"]
        ELSE IF mb = None THEN [ok |-> FALSE, err |-> "ValueError"]
        ELSE IF parsed_date = None THEN [ok |-> FALSE, err |-> "ValueError"]
        ELSE
        LET path == Replace(Attr(attrs, 6), "%2F", "/")
            date == parsed_date[1]
            ids == parse_log_path(path)
        IN  [ok |-> TRUE,
             val |-> [log_line |-> line,
                      date |-> date,
                      calendar_yr |-> date.year,
                      calendar_month |-> date.month,
                      requester_ip |-> Attr(attrs, 0),
                      path |-> path,
                      dataset_id |-> ids.dataset_id,
                      file_id |-> ids.file_id,
                      access_type |-> Attr(attrs, 11),
                      status_code |-> Attr(attrs, 8),
                      bytes |-> Attr(attrs, 9),
                      mb |-> mb[1],
                      project |-> IF ~Contains(path, "/E3SM-Project")
                                  THEN "E3SM" ELSE "E3SM in CMIP6",
                      realm |-> ids.realm,
                      data_type |-> ids.data_type,
                      time_frequency |-> ids.time_frequency,
                      activity |-> ids.activity,
                      science_driver |-> ids.science_driver,
                      campaign |-> ids.campaign]]

(***************************************************************************)
(* filter_log_lines                                                        *)
(***************************************************************************)
\* The filter without the test for the project's token.
filter_lines_of_any_project(line) ==
    /\ ~Contains(line, "xml")
    /\ ~Contains(line, "ico")
    /\ ~Contains(line, "cmip6_variables")
    /\ ~Contains(line, "html")
    /\ ~Contains(line, "catalog")
    /\ ~Contains(line, "aggregation")

\* Whether filter_log_lines yields the line.
filter_log_lines(line) ==
    /\ Contains(line, "E3SM")
    /\ ~Contains(line, "xml")
    /\ ~Contains(line, "ico")
    /\ ~Contains(line, "cmip6_variables")
    /\ ~Contains(line, "html")
    /\ ~Contains(line, "catalog")
    /\ ~Contains(line, "aggregation")

(***************************************************************************)
(* gen_report.  A DataFrame whose row order nothing reads is a set of rows; *)
(* a sorted one is a sequence.  Rows with NaN in a grouping column are     *)
(* dropped by value_counts and groupby, so the facet column of a report    *)
(* row is <<value>>; it is None when gen_report has no facet (no column).  *)
(***************************************************************************)
RECURSIVE SetToSeq(_)
SetToSeq(S) ==
    IF S = {} THEN <<>>
    ELSE LET x == CHOOSE x \in S : TRUE IN <<x>> \o SetToSeq(S \ {x})

\* status_code.str.contains("200|206"): a regular-expression search
IsSuccessful(status_code) ==
    Contains(status_code, "200") \/ Contains(status_code, "206")

\* The value of the facet column of a table row: None when NaN.
FacetValue(row, fct) == IF fct = None THEN None ELSE row[fct[1]]

\* A row with NaN in one of agg_cols: value_counts and groupby drop it.
HasNaN(row, fct) == fct # None /\ FacetValue(row, fct) = None

\* The values of agg_cols in a table row
AggKey(row, fct) ==
    [calendar_yr_month |-> row.calendar_yr_month,
     calendar_yr |-> row.calendar_yr,
     calendar_month |-> row.calendar_month,
     facet |-> FacetValue(row, fct)]

\* The indices of the rows of table t that groupby puts under key k
GroupOf(t, fct, k) ==
    {i \in DOMAIN t : ~HasNaN(t[i], fct) /\ AggKey(t[i], fct) = k}

GroupKeys(t, fct) ==
    {AggKey(t[i], fct) : i \in {j \in DOMAIN t : ~HasNaN(t[j], fct)}}

\* df.value_counts(subset=agg_cols).reset_index(name="requests")
ReqByMon(t, fct) ==
    {[key |-> k, requests |-> Cardinality(GroupOf(t, fct, k))] :
        k \in GroupKeys(t, fct)}

\* The rows of t with a successful status, in their order
RECURSIVE SuccessfulRows(_)
SuccessfulRows(t) ==
    IF t = <<>> THEN <<>>
    ELSE (IF IsSuccessful(Head(t).status_code) THEN <<Head(t)>> ELSE <<>>)
         \o SuccessfulRows(Tail(t))

\* agg({"mb": "first"}): the amount of the first row of the group.
FirstMb(t, idx) == t[SetMin(idx)].mb

RECURSIVE SumMb(_, _)
SumMb(t, idx) ==
    IF idx = {} THEN Rat(0, 0)
    ELSE LET i == CHOOSE i \in idx : TRUE
         IN  RatAdd(t[i].mb, SumMb(t, idx \ {i}))

\* The successful rows grouped by agg_cols with mb summed, and gb = mb / 1024
DataByMon(t, fct) ==
    LET ok == SuccessfulRows(t)
        row(k) == LET mb == SumMb(ok, GroupOf(ok, fct, k))
                  IN  [key |-> k, mb |-> mb, gb |-> RatDivBsize(mb)]
    IN  {row(k) : k \in GroupKeys(ok, fct)}

\* pd.merge(df_req_by_mon, df_data_by_mon, on=agg_cols): an inner join
Merge(req, data) ==
    {[calendar_yr_month |-> r.key.calendar_yr_month,
      calendar_yr |-> r.key.calendar_yr,
      calendar_month |-> r.key.calendar_month,
      facet |-> r.key.facet,
      requests |-> r.requests,
      mb |-> d.mb,
      gb |-> d.gb] : <<r, d>> \in {p \in req \X data : p[1].key = p[2].key}}

PeriodLess(p1, p2) ==
    p1.year < p2.year \/ (p1.year = p2.year /\ p1.month < p2.month)

\* Order of two facet column values (both None without a facet column)
FacetLess(f1, f2) == f1 # None /\ f2 # None /\ StrLess(f1[1], f2[1])

\* sort_values(by=agg_cols): the order of two monthly rows
MonLess(r1, r2) ==
    \/ PeriodLess(r1.calendar_yr_month, r2.calendar_yr_month)
    \/ /\ r1.calendar_yr_month = r2.calendar_yr_month
       /\ \/ r1.calendar_yr < r2.calendar_yr
          \/ /\ r1.calendar_yr = r2.calendar_yr
             /\ \/ r1.calendar_month < r2.calendar_month
                \/ /\ r1.calendar_month = r2.calendar_month
                   /\ FacetLess(r1.facet, r2.facet)

\* The monthly report of gen_report
MonthlyReport(t, fct) ==
    SortSeq(SetToSeq(Merge(ReqByMon(t, fct), DataByMon(t, fct))), MonLess)

(***************************************************************************)
(* resample_to_quarter                                                     *)
(***************************************************************************)
\* Period.asfreq("Q-DEC"): the quarter of the calendar year.
AsfreqQDec(p) == [qyear |-> p.year, quarter |-> ((p.month - 1) \div 3) + 1]

\* Period.asfreq("Q-JUN") of a monthly period: the quarter, of the fiscal
\* year that ends in June, that holds the month
AsfreqQJun(p) ==
    LET shifted == p.month - 6
    IN  IF shifted <= 0
        THEN [qyear |-> p.year, quarter |-> ((shifted + 12 - 1) \div 3) + 1]
        ELSE [qyear |-> p.year + 1, quarter |-> ((shifted - 1) \div 3) + 1]

\* The calendar month taken for the fiscal month.
calendar_month_as_fiscal(month) == month

convert_to_fiscal_month(month) ==
    CASE month = 7 -> 1   [] month = 8 -> 2   [] month = 9 -> 3
      [] month = 10 -> 4  [] month = 11 -> 5  [] month = 12 -> 6
      [] month = 1 -> 7   [] month = 2 -> 8   [] month = 3 -> 9
      [] month = 4 -> 10  [] month = 5 -> 11  [] month = 6 -> 12

\* The grouping columns resample_to_quarter gives a monthly row
QtKey(row) ==
    LET fy_quarter == AsfreqQJun(row.calendar_yr_month)
    IN  [calendar_yr |-> row.calendar_yr,
         calendar_month |-> row.calendar_month,
         fiscal_yr |-> IntToStr(fy_quarter.qyear),
         fiscal_quarter |-> IntToStr(fy_quarter.quarter),
         fiscal_month |-> convert_to_fiscal_month(row.calendar_month),
         facet |-> row.facet]

\* agg({"requests": "count"}): the number of rows of the group.
CountRequests(mon, idx) == Cardinality(idx)

RECURSIVE SumRequests(_, _)
SumRequests(mon, idx) ==
    IF idx = {} THEN 0
    ELSE LET i == CHOOSE i \in idx : TRUE
         IN  mon[i].requests + SumRequests(mon, idx \ {i})

RECURSIVE SumGb(_, _)
SumGb(mon, idx) ==
    IF idx = {} THEN Rat(0, 0)
    ELSE LET i == CHOOSE i \in idx : TRUE
         IN  RatAdd(mon[i].gb, SumGb(mon, idx \ {i}))

\* The order groupby gives the groups: ascending in the grouping columns
QtLess(r1, r2) ==
    \/ r1.calendar_yr < r2.calendar_yr
    \/ /\ r1.calendar_yr = r2.calendar_yr
       /\ \/ r1.calendar_month < r2.calendar_month
          \/ /\ r1.calendar_month = r2.calendar_month
             /\ \/ StrLess(r1.fiscal_yr, r2.fiscal_yr)
                \/ /\ r1.fiscal_yr = r2.fiscal_yr
                   /\ \/ StrLess(r1.fiscal_quarter, r2.fiscal_quarter)
                      \/ /\ r1.fiscal_quarter = r2.fiscal_quarter
                         /\ \/ r1.fiscal_month < r2.fiscal_month
                            \/ /\ r1.fiscal_month = r2.fiscal_month
                               /\ FacetLess(r1.facet, r2.facet)

\* df_resample.groupby(by=agg_cols).agg({"requests": "sum", "gb": "sum"})
resample_to_quarter(mon) ==
    LET keys == {QtKey(mon[i]) : i \in DOMAIN mon}
        group(k) == {i \in DOMAIN mon : QtKey(mon[i]) = k}
    IN  SortSeq(SetToSeq({[calendar_yr |-> k.calendar_yr,
                           calendar_month |-> k.calendar_month,
                           fiscal_yr |-> k.fiscal_yr,
                           fiscal_quarter |-> k.fiscal_quarter,
                           fiscal_month |-> k.fiscal_month,
                           facet |-> k.facet,
                           requests |-> SumRequests(mon, group(k)),
                           gb |-> SumGb(mon, group(k))] : k \in keys}),
                QtLess)

(***************************************************************************)
(* The log lines the model reads.                                          *)
(***************************************************************************)
\* One line of an Apache access log, as readline returns it
AccessLogLine(day, path, status, bytes) ==
    "128.211.148.13 - - [" \o day \o ":12:01:01 -0700] \"GET " \o path
        \o " HTTP/1.1\" " \o status \o " " \o bytes
        \o " \"-\" \"Wget/1.14 (linux-gnu)\"\n"

MidMonthDays ==
    {"15/" \o MonthAbbr[m] \o "/" \o y : m \in 1..12, y \in {"2019", "2020"}}

AllDays == MidMonthDays \cup {"30/Jun/2020", "01/Jul/2020", "31/Jun/2020", "15/Foo/2020"}

AtmosPath == "/fs/user_pub_work/E3SM/1_0/atmos/model-output/mon/ens1/f.nc"

OceanPath == "/fs/user_pub_work/E3SM/1_0/ocean/climo/day/f.nc"

NoFacetPath == "/fs/user_pub_work/E3SM/1_0/native/f.nc"

AllPaths ==
    {AtmosPath, OceanPath, NoFacetPath,
     "/fs/user_pub_work/E3SM/atmos/ocean/f.nc",
     "/fs/user_pub_work/E3SM/ocean/atmos/f.nc",
     "/fs/E3SM/atmos/f.nc",
     "/E3SM",
     "/fs/user_pub_work%2FE3SM%2Fland%2Ff.nc",
     "/fs/user_pub_work/E3SM-Project/CMIP/land/mon.v1/f.nc",
     "/fs/my_user_pub_work_old/E3SM/land/user_pub_work/E3SM/ocean/f.nc"}

AllStatuses == {"200", "206", "404", "302", "1200"}

AllByteTokens == {"-", "0", "5", "2048", "-5", "1-2", "12x"}

\* Lines that are no download request of the project, or not a whole one
OddLines ==
    {"128.211.148.13 - - [15/Jul/2019:12:01:01 -0700] \"GET /E3SM\n",
     AccessLogLine("15/Jul/2019", "/fs/user_pub_work/E3SM/catalog.html", "200", "5"),
     AccessLogLine("15/Jul/2019", "/fs/user_pub_work/CMIP6/atmos/f.nc", "200", "5"),
     "128.211.148.13 - - [15/Jul/2019:12:01:01 -0700] \"GET /E3SM/catalog.xml\n"}

\* The lines of the one-line logs
WideLines ==
    {AccessLogLine(d, p, "200", "5") : d \in AllDays, p \in {AtmosPath, NoFacetPath}}
    \cup {AccessLogLine("15/Jul/2019", p, s, b) :
            p \in AllPaths, s \in AllStatuses, b \in AllByteTokens}
    \cup OddLines

\* The lines of the logs of several lines: three months of two fiscal years,
\* two of them in one quarter; two realms and a dataset with none; requests
\* that were served and requests that were not; a request of a catalog page.
NarrowLines ==
    {AccessLogLine("30/Jun/2020", AtmosPath, "200", "5"),
     AccessLogLine("30/Jun/2020", OceanPath, "404", "5"),
     AccessLogLine("30/Jun/2020", NoFacetPath, "200", "5"),
     AccessLogLine("01/Jul/2020", AtmosPath, "200", "5"),
     AccessLogLine("01/Jul/2020", AtmosPath, "404", "5"),
     AccessLogLine("01/Jul/2020", OceanPath, "200", "5"),
     AccessLogLine("01/Jul/2020", OceanPath, "206", "2048"),
     AccessLogLine("01/Jul/2020", NoFacetPath, "200", "5"),
     AccessLogLine("15/Aug/2020", AtmosPath, "200", "5"),
     AccessLogLine("15/Aug/2020", AtmosPath, "1200", "5"),
     AccessLogLine("15/Aug/2020", OceanPath, "404", "-"),
     AccessLogLine("15/Aug/2020", NoFacetPath, "404", "5"),
     AccessLogLine("01/Jul/2020", "/fs/user_pub_work/E3SM/catalog.html", "200", "5")}

\* The logs the model reads: the lines of all the files in reading order
Logs ==
    {<<l>> : l \in WideLines}
    \cup UNION {[1..n -> NarrowLines] : n \in 0..MaxLines}

\* The facet arguments of gen_report
FacetArgs == {None} \cup {Some(FacetNames[i]) : i \in DOMAIN FacetNames}

(***************************************************************************)
(* parse_logs                                                              *)
(***************************************************************************)
Init ==
    /\ instream \in Logs
    /\ log_lines = <<>>
    /\ df = None
    /\ pc = "parsing"
    /\ err = "none"
    /\ facet = None
    /\ df_mon_report = <<>>
    /\ df_qt_report = <<>>

\* filter_log_lines and parse_log_line depend on the line alone: what they
\* give for each line of the model, computed once.
LineResults ==
    [l \in WideLines \cup NarrowLines |->
        [yielded |-> filter_log_lines(l),
         parsed_line |-> IF filter_log_lines(l) THEN parse_log_line(l) ELSE None]]

\* One turn of parse_logs's loops: filter_log_lines reads the next line; a
\* line it does not yield is passed over; a line it yields is parsed and
\* appended, unless parse_log_line raises, which ends parse_logs.
ReadLine ==
    /\ pc = "parsing"
    /\ instream # <<>>
    /\ instream' = Tail(instream)
    /\ IF ~LineResults[Head(instream)].yielded
       THEN UNCHANGED <<log_lines, pc, err>>
       ELSE LET parsed_line == LineResults[Head(instream)].parsed_line
            IN  IF parsed_line.ok
                THEN /\ log_lines' = Append(log_lines, parsed_line.val)
                     /\ UNCHANGED <<pc, err>>
                ELSE /\ pc' = "error"
                     /\ err' = parsed_line.err
                     /\ UNCHANGED log_lines
    /\ UNCHANGED <<df, facet, df_mon_report, df_qt_report>>

\* The table parse_logs builds from log_lines: the parsed lines with the
\* calendar_yr_month column, the monthly period of the date.
ToDataFrame(lines) ==
    [i \in DOMAIN lines |->
        lines[i] @@ [calendar_yr_month |->
                        [year |-> lines[i].date.year, month |-> lines[i].date.month]]]

\* The logs are exhausted with no parsed line: parse_logs raises IndexError.
NoLogLines ==
    /\ pc = "parsing"
    /\ instream = <<>>
    /\ log_lines = <<>>
    /\ pc' = "error"
    /\ err' = "IndexError"
    /\ UNCHANGED <<instream, log_lines, df, facet, df_mon_report, df_qt_report>>

\* The logs are exhausted: parse_logs returns the table.
ReturnDataFrame ==
    /\ pc = "parsing"
    /\ instream = <<>>
    /\ log_lines # <<>>
    /\ df' = Some(ToDataFrame(log_lines))
    /\ pc' = "parsed"
    /\ UNCHANGED <<instream, log_lines, err, facet, df_mon_report, df_qt_report>>

(***************************************************************************)
(* gen_report(df, facet)                                                   *)
(***************************************************************************)
\* pandas is not part of the source.  Two calls of resample_to_quarter reach
\* it with arguments whose handling is pandas's own: a monthly report with no
\* row (apply on an empty frame returns a frame, not a column), and a None
\* among the grouping columns (facet is None).  In both, gen_report either
\* raises or returns the rows grouped by the columns that are there; the
\* model takes both outcomes.
PandasMayRaise(mon, fct) == mon = <<>> \/ fct = None

GenReport(fct) ==
    /\ pc = "parsed"
    /\ facet' = fct
    /\ LET df_mon == MonthlyReport(df[1], fct)
       IN  /\ df_mon_report' = df_mon
           /\ df_qt_report' = resample_to_quarter(df_mon)
    /\ pc' = "done"
    /\ UNCHANGED <<instream, log_lines, df, err>>

GenReportRaises(fct) ==
    /\ pc = "parsed"
    /\ PandasMayRaise(MonthlyReport(df[1], fct), fct)
    /\ facet' = fct
    /\ pc' = "error"
    /\ err' = "pandas"
    /\ UNCHANGED <<instream, log_lines, df, df_mon_report, df_qt_report>>

Next ==
    \/ ReadLine
    \/ NoLogLines
    \/ ReturnDataFrame
    \/ \E fct \in FacetArgs : GenReport(fct)
    \/ \E fct \in FacetArgs : GenReportRaises(fct)

Spec == Init /\ [][Next]_vars

(***************************************************************************)
(* Properties.                                                             *)
(***************************************************************************)
\* gen_report returned a report.
Returned == pc = "done"

\* gen_report returned a report for a facet, from a monthly report with rows:
\* the reports that do not rest on how pandas takes an empty frame or a None
\* grouping column.
ReturnedForFacet == pc = "done" /\ facet # None /\ df_mon_report # <<>>

RECURSIVE SumOver(_, _)
SumOver(rows, idx) ==
    IF idx = {} THEN 0
    ELSE LET i == CHOOSE i \in idx : TRUE
         IN  rows[i].requests + SumOver(rows, idx \ {i})

\* The fiscal year and quarter of a calendar month, as the fiscal calendar
\* defines them: the year runs from July to June and is named after the
\* calendar year it ends in.
FiscalYearOf(y, m) == IF m \in 7..12 THEN y + 1 ELSE y

FiscalQuarterOf(m) ==
    CASE m \in {7, 8, 9} -> 1 [] m \in {10, 11, 12} -> 2
      [] m \in {1, 2, 3} -> 3 [] m \in {4, 5, 6} -> 4

\* C1: every row of the returned report carries the fiscal year and quarter
\* of its calendar month: fiscal_yr is Y + 1 for months 7..12 and Y for
\* months 1..6; fiscal_quarter is 1 for Jul-Sep, 2 for Oct-Dec, 3 for
\* Jan-Mar, 4 for Apr-Jun.
C1_FiscalMapping ==
    Returned =>
        \A i \in DOMAIN df_qt_report :
            LET r == df_qt_report[i]
            IN  /\ r.calendar_month \in 1..12
                /\ r.fiscal_yr = IntToStr(FiscalYearOf(r.calendar_yr, r.calendar_month))
                /\ r.fiscal_quarter = IntToStr(FiscalQuarterOf(r.calendar_month))

\* A report with June 2020 in FY 2020 Q4 and July 2020 in FY 2021 Q1.
C1_Witness ==
    /\ Returned
    /\ \E i, j \in DOMAIN df_qt_report :
          /\ df_qt_report[i].calendar_yr = 2020
          /\ df_qt_report[i].calendar_month = 6
          /\ df_qt_report[i].fiscal_yr = "2020"
          /\ df_qt_report[i].fiscal_quarter = "4"
          /\ df_qt_report[j].calendar_yr = 2020
          /\ df_qt_report[j].calendar_month = 7
          /\ df_qt_report[j].fiscal_yr = "2021"
          /\ df_qt_report[j].fiscal_quarter = "1"

\* The rows of the table with the calendar month and facet value of row e
SameGroup(t, fct, e) ==
    {i \in DOMAIN t :
        /\ t[i].calendar_yr = e.calendar_yr
        /\ t[i].calendar_month = e.calendar_month
        /\ FacetValue(t[i], fct) = FacetValue(e, fct)}

\* C2: for every grouping key (calendar year, calendar month, facet value)
\* that an event has, the report has a row whose requests is the number of
\* events with that key, whatever their status.  (The key of an event with
\* no facet value is C4's.)
C2_RequestsCountEveryStatus ==
    ReturnedForFacet =>
        \A i \in DOMAIN df[1] :
            FacetValue(df[1][i], facet) # None =>
                \E j \in DOMAIN df_qt_report :
                    /\ df_qt_report[j].calendar_yr = df[1][i].calendar_yr
                    /\ df_qt_report[j].calendar_month = df[1][i].calendar_month
                    /\ df_qt_report[j].facet = FacetValue(df[1][i], facet)
                    /\ df_qt_report[j].requests
                         = Cardinality(SameGroup(df[1], facet, df[1][i]))

RECURSIVE SumMbIf(_, _)
SumMbIf(t, idx) ==
    IF idx = {} THEN Rat(0, 0)
    ELSE LET i == CHOOSE i \in idx : TRUE
         IN  RatAdd(t[i].mb, SumMbIf(t, idx \ {i}))

\* The events of the month and facet value of a report row
EventsOfRow(t, fct, r) ==
    {i \in DOMAIN t :
        /\ t[i].calendar_yr = r.calendar_yr
        /\ t[i].calendar_month = r.calendar_month
        /\ FacetValue(t[i], fct) = r.facet}

\* C3: the byte total of every report row is the sum of the byte amounts of
\* the events of its group whose status_code is exactly "200" or "206".
C3_BytesOfExactStatus ==
    ReturnedForFacet =>
        \A j \in DOMAIN df_qt_report :
            LET r == df_qt_report[j]
                counted == {i \in EventsOfRow(df[1], facet, r) :
                                df[1][i].status_code \in {"200", "206"}}
            IN  RatEq(r.gb, RatDivBsize(SumMbIf(df[1], counted)))

\* C4: with a facet, the events with no value for it are a group of the
\* report: a row for their month with an absent facet value counts them.
C4_AbsentFacetGroup ==
    ReturnedForFacet =>
        \A i \in DOMAIN df[1] :
            (FacetValue(df[1][i], facet) = None
             /\ df[1][i].status_code \in {"200", "206"}) =>
                \E j \in DOMAIN df_qt_report :
                    /\ df_qt_report[j].calendar_yr = df[1][i].calendar_yr
                    /\ df_qt_report[j].calendar_month = df[1][i].calendar_month
                    /\ df_qt_report[j].facet = None
                    /\ df_qt_report[j].requests
                         = Cardinality(SameGroup(df[1], facet, df[1][i]))

\* The monthly rows of the fiscal quarter and facet value of a report row
MonthsOfQuarter(mon, r) ==
    {i \in DOMAIN mon :
        /\ IntToStr(FiscalYearOf(mon[i].calendar_yr, mon[i].calendar_month)) = r.fiscal_yr
        /\ IntToStr(FiscalQuarterOf(mon[i].calendar_month)) = r.fiscal_quarter
        /\ mon[i].facet = r.facet}

\* C5: the report has one row per (fiscal_yr, fiscal_quarter, facet value),
\* and the row's requests and gb are the sums over the months of the quarter.
C5_OneRowPerQuarter ==
    ReturnedForFacet =>
        /\ \A i, j \in DOMAIN df_qt_report :
              (/\ df_qt_report[i].fiscal_yr = df_qt_report[j].fiscal_yr
               /\ df_qt_report[i].fiscal_quarter = df_qt_report[j].fiscal_quarter
               /\ df_qt_report[i].facet = df_qt_report[j].facet) => i = j
        /\ \A j \in DOMAIN df_qt_report :
              /\ df_qt_report[j].requests
                   = SumOver(df_mon_report, MonthsOfQuarter(df_mon_report, df_qt_report[j]))
              /\ RatEq(df_qt_report[j].gb,
                       SumGb(df_mon_report, MonthsOfQuarter(df_mon_report, df_qt_report[j])))

\* The fiscal years of the months of the monthly report
FiscalYears ==
    {FiscalYearOf(df_mon_report[i].calendar_yr, df_mon_report[i].calendar_month) :
        i \in DOMAIN df_mon_report}

\* C6: for every fiscal year F, the requests of the monthly rows whose month
\* belongs to F sum to the requests of the report's rows whose fiscal_yr is F,
\* and the report has no row of another fiscal year.
C6_ResamplingKeepsRequests ==
    Returned =>
        /\ \A F \in FiscalYears :
              SumOver(df_mon_report,
                      {i \in DOMAIN df_mon_report :
                          FiscalYearOf(df_mon_report[i].calendar_yr,
                                       df_mon_report[i].calendar_month) = F})
              = SumOver(df_qt_report,
                        {j \in DOMAIN df_qt_report :
                            df_qt_report[j].fiscal_yr = IntToStr(F)})
        /\ \A j \in DOMAIN df_qt_report :
              \E F \in FiscalYears : df_qt_report[j].fiscal_yr = IntToStr(F)

\* A report of two fiscal years, one of them with several requests in a month.
C6_Witness ==
    /\ Returned
    /\ Cardinality(FiscalYears) = 2
    /\ \E i \in DOMAIN df_mon_report : df_mon_report[i].requests >= 2
    /\ \E j \in DOMAIN df_qt_report : df_qt_report[j].requests >= 2

\* (fiscal_yr, fiscal_quarter, facet) of r1 is at most that of r2.
FiscalOrderLeq(r1, r2) ==
    \/ StrLess(r1.fiscal_yr, r2.fiscal_yr)
    \/ /\ r1.fiscal_yr = r2.fiscal_yr
       /\ \/ StrLess(r1.fiscal_quarter, r2.fiscal_quarter)
          \/ /\ r1.fiscal_quarter = r2.fiscal_quarter
             /\ (r1.facet = r2.facet \/ FacetLess(r1.facet, r2.facet))

\* C7: the rows of the report are in ascending order of fiscal year, then
\* fiscal quarter, then facet value.
C7_SortedByFiscalKey ==
    ReturnedForFacet =>
        \A i \in 1..(Len(df_qt_report) - 1) :
            FiscalOrderLeq(df_qt_report[i], df_qt_report[i + 1])

\* C8: a parsed line whose path does not contain "user_pub_work" has the
\* empty dataset_id and no facet value.
C8_NoMarkerNoDataset ==
    \A i \in DOMAIN log_lines :
        ~Contains(log_lines[i].path, "user_pub_work") =>
            /\ log_lines[i].dataset_id = ""
            /\ \A k \in DOMAIN FacetNames : log_lines[i][FacetNames[k]] = None

\* option is a dot-delimited segment of the identifier: it occurs in it
\* between two dots, or a dot and an end, or the two ends.
IsSegment(id, option) ==
    \E i \in 1..(Len(id) - Len(option) + 1) :
        /\ SubSeq(id, i, i + Len(option) - 1) = option
        /\ (i = 1 \/ CharAt(id, i - 1) = ".")
        /\ (i + Len(option) - 1 = Len(id) \/ CharAt(id, i + Len(option)) = ".")

SetMax(S) == CHOOSE x \in S : \A y \in S : y <= x

\* C9: every facet value of a parsed line is the entry that comes last in the
\* vocabulary among the entries that are segments of the dataset identifier,
\* and None when no entry is a segment.
C9_LastVocabularyEntryWins ==
    \A i \in DOMAIN log_lines :
        \A k \in DOMAIN FacetNames :
            LET options == AVAILABLE_FACETS(FacetNames[k])
                hits == {n \in DOMAIN options :
                            IsSegment(log_lines[i].dataset_id, options[n])}
            IN  log_lines[i][FacetNames[k]]
                  = IF hits = {} THEN None ELSE Some(options[SetMax(hits)])

\* A parsed line whose identifier has "atmos" before "ocean" and one that has
\* "ocean" before "atmos": each with the realm "atmos", the later entry; and a
\* parsed line with no facet value at all.
C9_Witness ==
    \E i \in DOMAIN log_lines :
        \/ /\ log_lines[i].dataset_id = "E3SM.atmos.ocean"
           /\ log_lines[i].realm = Some("atmos")
           /\ log_lines[i].data_type = None
        \/ /\ log_lines[i].dataset_id = "E3SM.ocean.atmos"
           /\ log_lines[i].realm = Some("atmos")

\* token is a base-10 integer: digits, after an optional sign.
IsBase10Int(token) ==
    \/ AllDigits(token)
    \/ Len(token) >= 2 /\ Head(token) = "-" /\ AllDigits(Tail(token))

Base10Int(token) ==
    IF Head(token) = "-" THEN 0 - DecimalValue(Tail(token), 0)
    ELSE DecimalValue(token, 0)

\* C10: the byte amount of a parsed line is 0 when its byte token is "-";
\* for every other token it is the token's base-10 integer over 1024 * 1024.
C10_BytesPlaceholderOnly ==
    \A i \in DOMAIN log_lines :
        IF log_lines[i].bytes = "-"
        THEN RatEq(log_lines[i].mb, Rat(0, 0))
        ELSE /\ IsBase10Int(log_lines[i].bytes)
             /\ RatEq(log_lines[i].mb, Rat(Base10Int(log_lines[i].bytes), 2))

\* The line has the project's token and none of the excluded substrings.
Admitted(line) ==
    /\ Contains(line, "E3SM")
    /\ \A x \in {"xml", "ico", "cmip6_variables", "html", "catalog", "aggregation"} :
           ~Contains(line, x)

\* The line cannot be parsed: it has fewer positional fields than the twelve
\* that are read, or a timestamp that is no date, or a byte token that is
\* neither the placeholder "-" nor a number.
CannotBeParsed(line) ==
    LET attrs == Split(line)
    IN  \/ Len(attrs) < 12
        \/ parse_log_timestamp(attrs[4]) = None
        \/ attrs[10] # "-" /\ ~IsBase10Int(attrs[10])

\* What the two definitions above give for each line of the logs.
LineFacts ==
    [l \in WideLines \cup NarrowLines |->
        [admitted |-> Admitted(l), unparseable |-> CannotBeParsed(l)]]

\* C11: parse_logs is all-or-nothing.  Reading an admitted line that cannot
\* be parsed ends the call with an error and no table; reading an admitted
\* line that can be parsed appends its record, so no admitted line is passed
\* over; the end of the logs with no record ends the call with an error; and
\* a table is returned only at the end of the logs, with one row for every
\* record.
C11_AllOrNothing ==
    [][/\ (pc = "parsing" /\ instream # <<>> /\ LineFacts[Head(instream)].admitted) =>
            IF LineFacts[Head(instream)].unparseable
            THEN pc' = "error" /\ df' = None
            ELSE /\ Len(log_lines') = Len(log_lines) + 1
                 /\ SubSeq(log_lines', 1, Len(log_lines)) = log_lines
                 /\ log_lines'[Len(log_lines')].log_line = Head(instream)
       /\ (pc = "parsing" /\ instream = <<>> /\ log_lines = <<>>) =>
            pc' = "error" /\ df' = None
       /\ df' # df =>
            /\ pc = "parsing" /\ instream = <<>> /\ log_lines # <<>>
            /\ df' # None /\ Len(df'[1]) = Len(log_lines)
      ]_vars

\* C12: filter_log_lines yields exactly the lines that have the token "E3SM"
\* and none of the excluded substrings.  A line that is read and is not such a
\* line leaves the records and the outcome of the call as they were, whether
\* or not it could be parsed; a line that is such a line is parsed next: its
\* record is put after the records of the lines read before it, or the call
\* ends with the parser's error.
C12_FilterAdmitsExactly ==
    [][(pc = "parsing" /\ instream # <<>>) =>
         IF LineFacts[Head(instream)].admitted
         THEN \/ /\ pc' = "parsing"
                 /\ Len(log_lines') = Len(log_lines) + 1
                 /\ SubSeq(log_lines', 1, Len(log_lines)) = log_lines
                 /\ log_lines'[Len(log_lines')].log_line = Head(instream)
              \/ /\ pc' = "error"
                 /\ err' \in {"IndexError", "ValueError"}
                 /\ log_lines' = log_lines
         ELSE UNCHANGED <<log_lines, pc, err>>
      ]_vars

\* A line that is not admitted is about to be read, after a record was made
\* of a line that was admitted.
C12_Witness ==
    /\ pc = "parsing"
    /\ log_lines # <<>>
    /\ instream # <<>>
    /\ ~LineFacts[Head(instream)].admitted

\* The URL path of each line of the logs, its seventh field, with every
\* "%2F" decoded to "/".
DecodedPath ==
    [l \in WideLines \cup NarrowLines |->
        IF Len(Split(l)) >= 7 THEN Replace(Split(l)[7], "%2F", "/") ELSE ""]

\* C13: when a segment of the decoded path of a parsed line is
\* "user_pub_work", dataset_id is the segments after that segment, without
\* the last one, joined by dots, and file_id is the last segment.
C13_DatasetIdAfterMarker ==
    \A i \in DOMAIN log_lines :
        LET segments == SplitOn(DecodedPath[log_lines[i].log_line], "/")
            markers == {k \in DOMAIN segments : segments[k] = "user_pub_work"}
        IN  markers # {} =>
                /\ \E k \in markers :
                      log_lines[i].dataset_id
                        = Join(".", SubSeq(segments, k + 1, Len(segments) - 1))
                /\ log_lines[i].file_id = segments[Len(segments)]

\* The orderings of n lines
Orderings(n) ==
    {p \in [1..n -> 1..n] : \A i, j \in 1..n : p[i] = p[j] => i = j}

\* Two monthly rows, or two quarterly rows, with the same key, requests and
\* amounts
SameRow(r, q) ==
    /\ [r EXCEPT !.gb = Rat(0, 0)] = [q EXCEPT !.gb = Rat(0, 0)]
    /\ RatEq(r.gb, q.gb)

SameMonthlyRow(r, q) ==
    /\ SameRow([r EXCEPT !.mb = Rat(0, 0)], [q EXCEPT !.mb = Rat(0, 0)])
    /\ RatEq(r.mb, q.mb)

\* parse_logs and gen_report on the admitted lines of the call in the
\* ordering p, when no line raises
ReportOfOrdering(p) ==
    LET lines == [i \in DOMAIN log_lines |-> log_lines[p[i]].log_line]
        records == [i \in DOMAIN lines |-> LineResults[lines[i]].parsed_line.val]
        mon == MonthlyReport(ToDataFrame(records), facet)
    IN  [mon |-> mon, qt |-> resample_to_quarter(mon)]

\* C14: the reports are those of every other ordering of the admitted lines:
\* the same monthly rows and the same quarterly rows, with the same requests
\* and amounts.
C14_OrderIndependent ==
    Returned =>
        \A p \in Orderings(Len(log_lines)) :
            LET other == ReportOfOrdering(p)
            IN  /\ Len(other.mon) = Len(df_mon_report)
                /\ \A i \in DOMAIN df_mon_report :
                      \E j \in DOMAIN other.mon :
                          SameMonthlyRow(df_mon_report[i], other.mon[j])
                /\ Len(other.qt) = Len(df_qt_report)
                /\ \A i \in DOMAIN df_qt_report :
                      \E j \in DOMAIN other.qt :
                          SameRow(df_qt_report[i], other.qt[j])

\* A report by realm of three lines, two of them of one month and realm with
\* different amounts, read with another line between them.
C14_Witness ==
    /\ ReturnedForFacet
    /\ facet = Some("realm")
    /\ Len(log_lines) = 3
    /\ AggKey(df[1][1], facet) = AggKey(df[1][3], facet)
    /\ AggKey(df[1][1], facet) # AggKey(df[1][2], facet)
    /\ IsSuccessful(log_lines[1].status_code)
    /\ IsSuccessful(log_lines[3].status_code)
    /\ ~RatEq(log_lines[1].mb, log_lines[3].mb)
    /\ \E i \in DOMAIN df_mon_report : df_mon_report[i].requests = 2

\* C15: convert_to_fiscal_month takes the calendar months 1..12 one-to-one
\* onto the fiscal months 1..12, month m to ((m - 7) mod 12) + 1; and in
\* every row of the quarterly report fiscal_month is the fiscal month of the
\* row's calendar month and fiscal_quarter is the quarter that holds it,
\* ((fiscal_month - 1) div 3) + 1.
C15_FiscalMonthAgreesWithQuarter ==
    /\ \A m \in 1..12 : convert_to_fiscal_month(m) = ((m - 7) % 12) + 1
    /\ {convert_to_fiscal_month(m) : m \in 1..12} = 1..12
    /\ \A m, n \in 1..12 :
          convert_to_fiscal_month(m) = convert_to_fiscal_month(n) => m = n
    /\ Returned =>
          \A i \in DOMAIN df_qt_report :
              /\ df_qt_report[i].fiscal_month
                    = ((df_qt_report[i].calendar_month - 7) % 12) + 1
              /\ df_qt_report[i].fiscal_quarter
                    = IntToStr(((df_qt_report[i].fiscal_month - 1) \div 3) + 1)

\* A report with a row of June, the twelfth fiscal month, in the fourth
\* quarter, and a row of July, the first fiscal month, in the first quarter.
C15_Witness ==
    /\ Returned
    /\ \E i, j \in DOMAIN df_qt_report :
          /\ df_qt_report[i].calendar_month = 6
          /\ df_qt_report[i].fiscal_month = 12
          /\ df_qt_report[i].fiscal_quarter = "4"
          /\ df_qt_report[j].calendar_month = 7
          /\ df_qt_report[j].fiscal_month = 1
          /\ df_qt_report[j].fiscal_quarter = "1"

====
